---- MODULE Spec2Model ----
(***************************************************************************)
(* Model of utils/io/content/contentreader.go (package content):           *)
(*   - the JSON positioning decoder (findDecoderTargetPosition),           *)
(*   - the ContentReader handoff between its producer goroutine and the    *)
(*     callers of NextRecord / Reset / Length / GetError,                  *)
(*   - the external sort (SortContentReaderByCalculatedKey and its two     *)
(*     phases) and MergeSortedReaders.                                     *)
(***************************************************************************)
EXTENDS Integers, Sequences, FiniteSets, TLC

\* ------------------------------------------------------------------ bounds
\* utils.MaxBufferSize (capacity of the data channel and size of a sorted
\* run), scaled down.
MaxBufferSize == 2
\* Number of Reset calls the caller makes in one behaviour.
MaxResets == 1
\* Number of times Length may run its drain loop (each ends with a Reset).
MaxDrains == 2
\* Number of end-of-stream results one consumer collects before it stops.
MaxEofs == 2
\* Concurrent consumers of one reader.
NumConsumers == 2

\* ------------------------------------------------------------- JSON tokens
\* A file is the sequence of the JSON tokens json.Decoder sees in it; commas
\* and colons are consumed silently by the decoder and are left out.  A
\* string token in key position and a string value are both Go strings: the
\* tag "key" / "str" records only the grammatical position.
Tok(k, v) == [k |-> k, v |-> v]
LB == Tok("{", "")
RB == Tok("}", "")
LS == Tok("[", "")
RS == Tok("]", "")
Key(s) == Tok("key", s)
Str(s) == Tok("str", s)
Num(s) == Tok("num", s)
\* {"a": n}
Obj(n) == <<LB, Key("a"), Num(n), RB>>

\* The array key every reader of the model is built with.
arrayKey == "results"

\* A path at which no file exists (os.Open fails).
NoFile == <<Tok("nofile", "")>>
\* {"results":[{"a":1},{"a":2},{"a":3}]}
DocBasic == <<LB, Key("results"), LS>> \o Obj("1") \o Obj("2") \o Obj("3") \o <<RS, RB>>
\* {"results":[]}
DocEmpty == <<LB, Key("results"), LS, RS, RB>>
\* {"other":[{"x":1}]}
DocMissing == <<LB, Key("other"), LS, LB, Key("x"), Num("1"), RB, RS, RB>>
\* {"n":5,"results":[{"a":4},{"a":5}]}
DocScalarFirst == <<LB, Key("n"), Num("5"), Key("results"), LS>> \o Obj("4") \o Obj("5") \o <<RS, RB>>
\* {"l":[1],"results":[{"a":6}]}
DocArrayFirst == <<LB, Key("l"), LS, Num("1"), RS, Key("results"), LS>> \o Obj("6") \o <<RS, RB>>
\* {"m":{"b":1},"results":[{"a":7}]}
DocObjectFirst == <<LB, Key("m"), LB, Key("b"), Num("1"), RB, Key("results"), LS>> \o Obj("7") \o <<RS, RB>>
\* {"s":"results","results":[{"a":8}]}
DocStrValue == <<LB, Key("s"), Str("results"), Key("results"), LS>> \o Obj("8") \o <<RS, RB>>
\* {"results":[{"a":9}],"results":[{"a":10}]}
DocDupKey == <<LB, Key("results"), LS>> \o Obj("9") \o <<RS, Key("results"), LS>> \o Obj("10") \o <<RS, RB>>
\* {"results":[{"a":11},12,{"a":13}]}: the second element is not an object
DocBadElem == <<LB, Key("results"), LS>> \o Obj("11") \o <<Num("12")>> \o Obj("13") \o <<RS, RB>>

\* {"n":?,"results":[{"a":4},{"a":5}]}: invalid JSON in front of the key
DocBadTok == <<LB, Key("n"), Tok("bad", "?"), Key("results"), LS>> \o Obj("4") \o Obj("5") \o <<RS, RB>>

\* The path lists the readers of the model are built over.
FileLists ==
    { <<DocBasic>>, <<DocEmpty>>, <<DocMissing>>, <<DocScalarFirst>>,
      <<DocArrayFirst>>, <<DocObjectFirst>>, <<DocStrValue>>, <<DocDupKey>>,
      <<DocBadElem>>, <<NoFile>>,
      <<DocScalarFirst, DocBasic>>, <<DocScalarFirst, NoFile>>,
      <<NoFile, DocScalarFirst>>, <<DocBadElem, DocScalarFirst>>,
      <<DocMissing, DocArrayFirst>>, <<DocBadTok, DocScalarFirst>> }

\* --------------------------------------------------------- json.Decoder
\* Index of the last token of the JSON value that starts at p.
RECURSIVE ScanClose(_, _, _)
ScanClose(toks, p, depth) ==
    IF p > Len(toks) THEN Len(toks)
    ELSE LET d == IF toks[p].k \in {"{", "["} THEN depth + 1
                  ELSE IF toks[p].k \in {"}", "]"} THEN depth - 1
                  ELSE depth
         IN  IF d <= 0 THEN p ELSE ScanClose(toks, p + 1, d)

ValueEnd(toks, p) == ScanClose(toks, p, 0)

\* dec.More(): there is a next token and it is neither ']' nor '}'.
More(toks, p) == p <= Len(toks) /\ toks[p].k \notin {"]", "}"}

\* dec.Token(): the next token; io.EOF at the end of the input, a syntax
\* error on invalid input.
Token(toks, p) ==
    IF p > Len(toks) THEN [err |-> "EOF", tok |-> Tok("", ""), p |-> p]
    ELSE IF toks[p].k = "bad" THEN [err |-> "syntax", tok |-> Tok("", ""), p |-> p]
    ELSE [err |-> "nil", tok |-> toks[p], p |-> p + 1]

\* t == target, t a json.Token (interface{}) and target a string: true of
\* every string token with that value, whatever its position.
TokenIsString(tok, target) == tok.k \in {"key", "str"} /\ tok.v = target

\* dec.Decode(&ResultItem), ResultItem a map[string]interface{}: succeeds on
\* an object, fails on any other value.
DecodeMap(toks, p) ==
    IF toks[p].k = "{"
    THEN [err |-> "nil", rec |-> SubSeq(toks, p, ValueEnd(toks, p)),
          p |-> ValueEnd(toks, p) + 1]
    ELSE [err |-> "decode", rec |-> <<>>, p |-> p]

RECURSIVE findDecoderTargetPosition(_, _, _)
findDecoderTargetPosition(toks, p, target) ==
    IF ~More(toks, p) THEN [err |-> "nil", p |-> p]
    ELSE LET t == Token(toks, p) IN
         IF t.err # "nil" THEN [err |-> t.err, p |-> t.p]
         ELSE IF TokenIsString(t.tok, target)
              THEN \* isArray: skip '['
                   LET s == Token(toks, t.p) IN [err |-> s.err, p |-> s.p]
              ELSE findDecoderTargetPosition(toks, t.p, target)

\* The loop "for dec.More() { dec.Decode; cr.dataChannel <- ResultItem }":
\* the records it pushes, and the error that ends it.
RECURSIVE DecodeLoop(_, _, _)
DecodeLoop(toks, p, acc) ==
    IF ~More(toks, p) THEN [recs |-> acc, err |-> "nil"]
    ELSE LET d == DecodeMap(toks, p) IN
         IF d.err # "nil" THEN [recs |-> acc, err |-> d.err]
         ELSE DecodeLoop(toks, d.p, Append(acc, d.rec))

\* readSingleFile: the records the producer pushes for one file, in order,
\* and the error it appends to the errors queue ("nil": none).
readSingleFile(file) ==
    IF file = NoFile THEN [recs |-> <<>>, err |-> "open"]
    ELSE LET pos == findDecoderTargetPosition(file, 1, arrayKey) IN
         IF pos.err = "EOF" THEN [recs |-> <<>>, err |-> "not found"]
         ELSE IF pos.err # "nil" THEN [recs |-> <<>>, err |-> pos.err]
         ELSE DecodeLoop(file, pos.p, <<>>)

\* The files of the model, and the outcome of readSingleFile on each; the
\* producer's steps walk through this outcome one channel send at a time.
Docs ==
    { NoFile, DocBasic, DocEmpty, DocMissing, DocScalarFirst, DocArrayFirst,
      DocObjectFirst, DocStrValue, DocDupKey, DocBadElem, DocBadTok }
FileOutcome == [d \in Docs |-> readSingleFile(d)]

\* ------------------------------------------- what a file holds (documents)
\* Index of the value bound to the first top-level attribute named target;
\* 0 when the top-level object has no such attribute.
RECURSIVE FindTopKey(_, _, _)
FindTopKey(toks, p, target) ==
    IF p > Len(toks) \/ toks[p].k # "key" THEN 0
    ELSE IF toks[p].v = target THEN p + 1
    ELSE FindTopKey(toks, ValueEnd(toks, p + 1) + 1, target)

\* The values of the attributes that precede the target key, as the index of
\* the first token of each.
RECURSIVE ValuesBefore(_, _, _)
ValuesBefore(toks, p, target) ==
    IF p > Len(toks) \/ toks[p].k # "key" \/ toks[p].v = target THEN {}
    ELSE {p + 1} \cup ValuesBefore(toks, ValueEnd(toks, p + 1) + 1, target)

RECURSIVE Elements(_, _, _)
Elements(toks, p, acc) ==
    IF p > Len(toks) \/ toks[p].k = "]" THEN acc
    ELSE Elements(toks, ValueEnd(toks, p) + 1,
                  Append(acc, SubSeq(toks, p, ValueEnd(toks, p))))

\* The document is a JSON object with the target key bound to an array.
HasTargetArray(doc) ==
    /\ doc # NoFile
    /\ FindTopKey(doc, 2, arrayKey) # 0
    /\ doc[FindTopKey(doc, 2, arrayKey)].k = "["

\* The elements of the target array.
TargetArray(doc) ==
    IF HasTargetArray(doc)
    THEN Elements(doc, FindTopKey(doc, 2, arrayKey) + 1, <<>>)
    ELSE <<>>

\* Valid JSON whose top-level object has no attribute named the target key.
KeyAbsent(doc) == doc # NoFile /\ FindTopKey(doc, 2, arrayKey) = 0

\* The target array holds objects only.
ArrayOfRecords(doc) ==
    \A i \in 1..Len(TargetArray(doc)) : TargetArray(doc)[i][1].k = "{"

\* A container as the writer emits it, other scalar attributes allowed in
\* front: no attribute before the target key is an array, an object or a
\* string equal to the target key.
PlainContainer(doc) ==
    /\ HasTargetArray(doc)
    /\ ArrayOfRecords(doc)
    /\ \A v \in ValuesBefore(doc, 2, arrayKey) :
          /\ doc[v].k \in {"num", "str"}
          /\ ~TokenIsString(doc[v], arrayKey)

RECURSIVE ConcatArrays(_, _)
ConcatArrays(fs, i) ==
    IF i > Len(fs) THEN <<>> ELSE TargetArray(fs[i]) \o ConcatArrays(fs, i + 1)

IsPrefix(s, t) == Len(s) <= Len(t) /\ s = SubSeq(t, 1, Len(s))


\* ------------------------------------------------------------ reader state
VARIABLES
    files,       \* cr.filesPaths, each path given by the file's content
    empty,       \* cr.empty
    gen,         \* cr.dataChannel: index of the channel the field refers to
    chans,       \* every channel made so far: [buf, closed]
    onceDone,    \* cr.once has fired (Reset installs a fresh sync.Once)
    prods,       \* producer goroutines, by the channel index at their spawn
    length,      \* cr.length
    errq,        \* cr.errorsQueue
    sunk,        \* history: every error ever added to the errors queue
    panicked,    \* a goroutine panicked (send on / close of a closed channel)
    stale,       \* history: a producer pushed into a channel made after its spawn
    nCons,       \* number of consumer threads
    cpc,         \* per consumer: "idle" | "recv" | "inc" | "stop"
    crecv,       \* per consumer: the channel its receive is on
    ctmp,        \* per consumer: [rec, len], the record received and cr.length as read
    cgot,        \* history, per consumer: records returned since the window opened
    ceof,        \* history, per consumer: io.EOF results since the window opened
    inLength,    \* the caller (consumer 1) is inside Length's drain loop
    lastLen,     \* history: result of the latest Length call
    prevLen,     \* history: result of the Length call just before it, if consecutive
    afterLength, \* history: the window was opened by a Length return
    usedLength,  \* history: Length was called
    lastErr      \* history: result of the latest GetError call by the caller

readerVars == <<files, empty, gen, chans, onceDone, prods, length, errq, sunk,
                panicked, stale, nCons, cpc, crecv, ctmp, cgot, ceof, inLength,
                lastLen, prevLen, afterLength, usedLength, lastErr>>

\* The sort and merge operations read their input readers from a single
\* goroutine, one NextRecord call at a time: a reader is given by the records
\* of its file and the number of them already returned; NextRecord returns
\* the next one, or an error (io.EOF) once they are all returned.
VARIABLES
    sOp,                 \* "calc" | "embedded" | "merge" | "none": the entry point called
    ascendingOrder,      \* the requested direction
    bufSize,             \* utils.MaxBufferSize of the run
    input,               \* records of the reader to sort, in order
    inPos,               \* records of input already returned by NextRecord
    keysToContentItems,  \* phase 1: map sortKey -> SortRecord
    allKeys,             \* phase 1: keys of the map in insertion order
    sortedReaders,       \* files of the sorted readers (the runs, or the inputs of a merge)
    rdPos,               \* per sorted reader: records already returned
    currentContentItem,  \* phase 2: per reader <<>> (nil) or <<item>>
    sortedFilesClone,    \* phase 2: per reader, FALSE once set to nil
    resultFile,          \* records written by resultWriter
    sPc,                 \* "split" | "merge" | "done" | "none"
    sFail,               \* what fails during the call: [key, reader, writer]
    sErr,                \* the error returned: "none" (not returned yet) | "nil" | "err"
    runTemps             \* per run of sortedReaders: its temp file, an index of temps

sortVars == <<sOp, ascendingOrder, bufSize, input, inPos, keysToContentItems,
              allKeys, sortedReaders, rdPos, currentContentItem,
              sortedFilesClone, resultFile, sPc, sFail, sErr, runTemps>>

\* ------------------------------------------------------ files on disk
VARIABLES
    disk,        \* the paths at which a file exists
    filesPaths,  \* cr.filesPaths of the reader that is closed
    closePaths,  \* cr.filesPaths when Close was last called
    closeDisk,   \* the disk when Close was last called
    closeErr     \* what the last Close returned: "none" | "nil" | "err"

fsVars == <<disk, filesPaths, closePaths, closeDisk, closeErr>>

\* No reader is being closed.
FsIdle ==
    /\ disk = {}
    /\ filesPaths = <<>>
    /\ closePaths = <<>>
    /\ closeDisk = {}
    /\ closeErr = "none"

\* --------------------------------------------------------- MergeReaders
VARIABLES
    mrIn,    \* history: the input readers when MergeReaders was called
    mrArr,   \* arr: the input readers, each [files, empty, closed, errq]
    mrOut,   \* what MergeReaders returned: [reader, err]
    mrPc     \* "none" | "call" | "done" | "closed"

mrVars == <<mrIn, mrArr, mrOut, mrPc>>

\* ----------------------------------------------------------- temp files
VARIABLES
    temps    \* the temp files created by ContentWriters, in creation order:
             \* [kind, content, onDisk, owners], owners the number of
             \* readers the caller can reach whose filesPaths hold the file

tmpVars == <<temps>>

NoReader == [nil |-> TRUE, empty |-> TRUE, file |-> 0]

MrIdle ==
    /\ mrIn = <<>>
    /\ mrArr = <<>>
    /\ mrOut = [reader |-> NoReader, err |-> "none"]
    /\ mrPc = "none"

TmpIdle == temps = <<>>

vars == <<readerVars, sortVars, fsVars, mrVars, tmpVars>>

Gens == 0..(IF MaxResets > MaxDrains THEN MaxResets ELSE MaxDrains)
ConsumerIds == 1..NumConsumers

NoLen == [n |-> -1, err |-> "none"]
NoRec == <<>>

\* make(chan map[string]interface{}, utils.MaxBufferSize)
NewChan == [buf |-> <<>>, closed |-> FALSE]

\* runs counts the go statements executed for the producer of a generation.
IdleProd == [pc |-> "none", closeCh |-> 0, sendCh |-> 0, fi |-> 1, ri |-> 0,
             runs |-> 0]

\* utils.ErrorsQueue.AddError: append to the FIFO.
AddError(q, e) == Append(q, e)

\* utils.ErrorsQueue.GetError: the first error of the FIFO, read off it
\* ("nil" when there is none).
GetError(q) ==
    IF q = <<>> THEN [err |-> "nil", q |-> q] ELSE [err |-> Head(q), q |-> Tail(q)]

\* NewMultiSourceContentReader(filePaths, arrayKey)
ReaderInit(fl, n) ==
    /\ files = fl
    /\ empty = (Len(fl) = 0)
    /\ gen = 0
    /\ chans = [g \in Gens |-> NewChan]
    /\ onceDone = FALSE
    /\ prods = [g \in Gens |-> IdleProd]
    /\ length = 0
    /\ errq = <<>>
    /\ sunk = <<>>
    /\ panicked = FALSE
    /\ stale = FALSE
    /\ nCons = n
    /\ cpc = [c \in ConsumerIds |-> "idle"]
    /\ crecv = [c \in ConsumerIds |-> 0]
    /\ ctmp = [c \in ConsumerIds |-> [rec |-> NoRec, len |-> 0]]
    /\ cgot = [c \in ConsumerIds |-> <<>>]
    /\ ceof = [c \in ConsumerIds |-> 0]
    /\ inLength = FALSE
    /\ lastLen = NoLen
    /\ prevLen = NoLen
    /\ afterLength = FALSE
    /\ usedLength = FALSE
    /\ lastErr = "none"

\* ---------------------------------------------------------------- producer
\* The goroutine of NextRecord starts running: "defer close(cr.dataChannel)"
\* evaluates the channel now, then cr.length = 0, then cr.run().
ProdStart(g) ==
    /\ ~panicked
    /\ prods[g].pc = "spawned"
    /\ prods' = [prods EXCEPT ![g] = [@ EXCEPT !.pc = "run", !.closeCh = gen]]
    /\ length' = 0
    /\ UNCHANGED <<files, empty, gen, chans, onceDone, errq, sunk, panicked,
                   stale, nCons, cpc, crecv, ctmp, cgot, ceof, inLength,
                   lastLen, prevLen, afterLength, usedLength, lastErr>>
    /\ UNCHANGED <<sortVars, fsVars, mrVars, tmpVars>>

\* Mutant: the deferred close is not run.
CloseChanSkip(cs, ch) == cs

\* close(ch): closing a closed channel panics.
CloseChan(cs, ch) == [cs EXCEPT ![ch].closed = TRUE]

\* Mutant: the producer exits at the first file that fails.
ProdReadStop(g) ==
    /\ ~panicked
    /\ prods[g].pc = "run"
    /\ LET p == prods[g] IN
       IF p.fi > Len(files)
       THEN /\ prods' = [prods EXCEPT ![g].pc = "done"]
            /\ panicked' = chans[p.closeCh].closed
            /\ chans' = CloseChan(chans, p.closeCh)
            /\ UNCHANGED <<errq, sunk>>
       ELSE LET plan == FileOutcome[files[p.fi]] IN
            IF p.ri < Len(plan.recs)
            THEN /\ prods' = [prods EXCEPT ![g] = [@ EXCEPT !.pc = "send", !.sendCh = gen]]
                 /\ UNCHANGED <<chans, errq, sunk, panicked>>
            ELSE /\ prods' = [prods EXCEPT ![g] = [@ EXCEPT
                                !.fi = IF plan.err = "nil" THEN p.fi + 1 ELSE Len(files) + 1,
                                !.ri = 0]]
                 /\ errq' = IF plan.err = "nil" THEN errq ELSE AddError(errq, plan.err)
                 /\ sunk' = IF plan.err = "nil" THEN sunk ELSE Append(sunk, plan.err)
                 /\ UNCHANGED <<chans, panicked>>
    /\ UNCHANGED <<files, empty, gen, onceDone, length, stale, nCons, cpc,
                   crecv, ctmp, cgot, ceof, inLength, lastLen, prevLen,
                   afterLength, usedLength, lastErr>>
    /\ UNCHANGED <<sortVars, fsVars, mrVars, tmpVars>>

\* One step of run() / readSingleFile between two channel operations: decode
\* the next element and reach the send statement (which reads
\* cr.dataChannel), or finish the file (append its error, go to the next
\* path), or, past the last path, return and run the deferred close.
ProdRead(g) ==
    /\ ~panicked
    /\ prods[g].pc = "run"
    /\ LET p == prods[g] IN
       IF p.fi > Len(files)
       THEN /\ prods' = [prods EXCEPT ![g].pc = "done"]
            /\ panicked' = chans[p.closeCh].closed
            /\ chans' = CloseChan(chans, p.closeCh)
            /\ UNCHANGED <<errq, sunk>>
       ELSE LET plan == FileOutcome[files[p.fi]] IN
            IF p.ri < Len(plan.recs)
            THEN /\ prods' = [prods EXCEPT ![g] = [@ EXCEPT !.pc = "send", !.sendCh = gen]]
                 /\ UNCHANGED <<chans, errq, sunk, panicked>>
            ELSE /\ prods' = [prods EXCEPT ![g] = [@ EXCEPT !.fi = p.fi + 1, !.ri = 0]]
                 /\ errq' = IF plan.err = "nil" THEN errq ELSE AddError(errq, plan.err)
                 /\ sunk' = IF plan.err = "nil" THEN sunk ELSE Append(sunk, plan.err)
                 /\ UNCHANGED <<chans, panicked>>
    /\ UNCHANGED <<files, empty, gen, onceDone, length, stale, nCons, cpc,
                   crecv, ctmp, cgot, ceof, inLength, lastLen, prevLen,
                   afterLength, usedLength, lastErr>>
    /\ UNCHANGED <<sortVars, fsVars, mrVars, tmpVars>>

\* Mutant: the channel hands out the newest record first.
ChanPushFront(buf, item) == <<item>> \o buf

\* ch <- item on a channel of capacity utils.MaxBufferSize.
ChanPush(buf, item) == Append(buf, item)

\* cr.dataChannel <- ResultItem completes: blocked while the channel is
\* full; a send on a closed channel panics.
ProdSend(g) ==
    /\ ~panicked
    /\ prods[g].pc = "send"
    /\ LET p == prods[g]
           ch == chans[p.sendCh]
           item == FileOutcome[files[p.fi]].recs[p.ri + 1]
       IN  IF ch.closed
           THEN /\ panicked' = TRUE
                /\ UNCHANGED <<chans, prods, stale>>
           ELSE /\ Len(ch.buf) < MaxBufferSize
                /\ chans' = [chans EXCEPT ![p.sendCh].buf = ChanPush(ch.buf, item)]
                /\ prods' = [prods EXCEPT ![g] = [@ EXCEPT !.pc = "run", !.ri = p.ri + 1]]
                /\ stale' = (stale \/ p.sendCh > g)
                /\ UNCHANGED panicked
    /\ UNCHANGED <<files, empty, gen, onceDone, length, errq, sunk, nCons, cpc,
                   crecv, ctmp, cgot, ceof, inLength, lastLen, prevLen,
                   afterLength, usedLength, lastErr>>
    /\ UNCHANGED <<sortVars, fsVars, mrVars, tmpVars>>


\* --------------------------------------------------------------- consumers
\* Mutant: no sync.Once, every NextRecord call spawns the producer.
OnceDoAlways(ps) ==
    [ps EXCEPT ![gen] = [IdleProd EXCEPT !.pc = "spawned", !.runs = ps[gen].runs + 1]]

\* Mutant: the sync.Once never runs its function, no producer is spawned.
OnceDoNever(ps) == ps

\* cr.once.Do(func() { go func() {...}() }): the first call on the current
\* sync.Once spawns the producer.
OnceDo(ps) ==
    IF onceDone THEN ps
    ELSE [ps EXCEPT ![gen] = [IdleProd EXCEPT !.pc = "spawned", !.runs = ps[gen].runs + 1]]

\* NextRecord up to its channel receive: the empty check, once.Do, and the
\* read of cr.dataChannel the receive is made on.
NextRecordCall(c) ==
    /\ ~panicked
    /\ c <= nCons
    /\ cpc[c] = "idle"
    /\ IF empty
       THEN \* return errorutils.CheckErrorf("Empty")
            /\ cpc' = [cpc EXCEPT ![c] = "stop"]
            /\ UNCHANGED <<prods, onceDone, crecv>>
       ELSE /\ prods' = OnceDo(prods)
            /\ onceDone' = TRUE
            /\ crecv' = [crecv EXCEPT ![c] = gen]
            /\ cpc' = [cpc EXCEPT ![c] = "recv"]
    /\ lastLen' = NoLen
    /\ prevLen' = NoLen
    /\ UNCHANGED <<files, empty, gen, chans, length, errq, sunk, panicked,
                   stale, nCons, ctmp, cgot, ceof, inLength, afterLength,
                   usedLength, lastErr>>
    /\ UNCHANGED <<sortVars, fsVars, mrVars, tmpVars>>

\* record, ok := <-cr.dataChannel with ok: the oldest buffered record is
\* taken, ConvertToStruct fills the caller's value, and "cr.length++" reads
\* cr.length.
ChanPop(buf) == [item |-> Head(buf), rest |-> Tail(buf)]

RecvRecord(c) ==
    /\ ~panicked
    /\ c <= nCons
    /\ cpc[c] = "recv"
    /\ chans[crecv[c]].buf # <<>>
    /\ LET r == ChanPop(chans[crecv[c]].buf) IN
       /\ chans' = [chans EXCEPT ![crecv[c]].buf = r.rest]
       /\ ctmp' = [ctmp EXCEPT ![c] = [rec |-> r.item, len |-> length]]
    /\ cpc' = [cpc EXCEPT ![c] = "inc"]
    /\ UNCHANGED <<files, empty, gen, onceDone, prods, length, errq, sunk,
                   panicked, stale, nCons, crecv, cgot, ceof, inLength,
                   lastLen, prevLen, afterLength, usedLength, lastErr>>
    /\ UNCHANGED <<sortVars, fsVars, mrVars, tmpVars>>

\* "cr.length++" writes cr.length and NextRecord returns nil.  Inside
\* Length's loop the next NextRecord call follows at once (once.Do has fired,
\* the receive is on cr.dataChannel).
IncLength(c) ==
    /\ ~panicked
    /\ c <= nCons
    /\ cpc[c] = "inc"
    /\ length' = ctmp[c].len + 1
    /\ IF inLength /\ c = 1
       THEN /\ cpc' = [cpc EXCEPT ![c] = "recv"]
            /\ crecv' = [crecv EXCEPT ![c] = gen]
            /\ UNCHANGED cgot
       ELSE /\ cpc' = [cpc EXCEPT ![c] = "idle"]
            /\ cgot' = [cgot EXCEPT ![c] = Append(@, ctmp[c].rec)]
            /\ UNCHANGED crecv
    /\ UNCHANGED <<files, empty, gen, chans, onceDone, prods, errq, sunk,
                   panicked, stale, nCons, ctmp, ceof, inLength, lastLen,
                   prevLen, afterLength, usedLength, lastErr>>
    /\ UNCHANGED <<sortVars, fsVars, mrVars, tmpVars>>

\* Reset: a fresh channel and a fresh sync.Once.
ResetFields ==
    /\ gen' = gen + 1
    /\ chans' = [chans EXCEPT ![gen + 1] = NewChan]
    /\ onceDone' = FALSE

\* Length's result once its loop has ended and Reset has run.
LengthResult(q, len) ==
    IF GetError(q).err # "nil" THEN [n |-> 0, err |-> GetError(q).err]
    ELSE [n |-> len, err |-> "nil"]

\* record, ok := <-cr.dataChannel with !ok: the channel is closed and
\* drained, NextRecord returns io.EOF.  Inside Length this ends the loop:
\* Reset, GetError, return.
RecvEOF(c) ==
    /\ ~panicked
    /\ c <= nCons
    /\ cpc[c] = "recv"
    /\ chans[crecv[c]].buf = <<>>
    /\ chans[crecv[c]].closed
    /\ IF inLength /\ c = 1
       THEN /\ ResetFields
            /\ errq' = GetError(errq).q
            /\ prevLen' = lastLen
            /\ lastLen' = LengthResult(errq, length)
            /\ inLength' = FALSE
            /\ afterLength' = TRUE
            /\ cgot' = [cgot EXCEPT ![c] = <<>>]
            /\ ceof' = [ceof EXCEPT ![c] = 0]
            /\ cpc' = [cpc EXCEPT ![c] = "idle"]
       ELSE /\ ceof' = [ceof EXCEPT ![c] = @ + 1]
            /\ cpc' = [cpc EXCEPT ![c] = IF ceof[c] + 1 >= MaxEofs THEN "stop" ELSE "idle"]
            /\ UNCHANGED <<gen, chans, onceDone, errq, prevLen, lastLen,
                           inLength, afterLength, cgot>>
    /\ UNCHANGED <<files, empty, prods, length, sunk, panicked, stale, nCons,
                   crecv, ctmp, usedLength, lastErr>>
    /\ UNCHANGED <<sortVars, fsVars, mrVars, tmpVars>>

\* The caller calls Reset (no NextRecord call is in flight).
Reset ==
    /\ ~panicked
    /\ cpc[1] \in {"idle", "stop"}
    /\ ~empty
    /\ gen < MaxResets
    /\ ResetFields
    /\ cgot' = [cgot EXCEPT ![1] = <<>>]
    /\ ceof' = [ceof EXCEPT ![1] = 0]
    /\ cpc' = [cpc EXCEPT ![1] = "idle"]
    /\ afterLength' = FALSE
    /\ lastLen' = NoLen
    /\ prevLen' = NoLen
    /\ UNCHANGED <<files, empty, prods, length, errq, sunk, panicked, stale,
                   nCons, crecv, ctmp, inLength, usedLength, lastErr>>
    /\ UNCHANGED <<sortVars, fsVars, mrVars, tmpVars>>

\* The caller calls Length: 0 for an empty reader, the cached cr.length when
\* it is not 0, else the loop over NextRecord begins.
Length ==
    /\ ~panicked
    /\ cpc[1] \in {"idle", "stop"}
    /\ usedLength' = TRUE
    /\ IF empty \/ length # 0
       THEN /\ prevLen' = lastLen
            /\ lastLen' = [n |-> IF empty THEN 0 ELSE length, err |-> "nil"]
            /\ afterLength' = TRUE
            /\ cgot' = [cgot EXCEPT ![1] = <<>>]
            /\ ceof' = [ceof EXCEPT ![1] = 0]
            /\ cpc' = [cpc EXCEPT ![1] = "idle"]
            /\ UNCHANGED <<prods, onceDone, crecv, inLength>>
       ELSE /\ gen < MaxDrains
            /\ prods' = OnceDo(prods)
            /\ onceDone' = TRUE
            /\ crecv' = [crecv EXCEPT ![1] = gen]
            /\ cpc' = [cpc EXCEPT ![1] = "recv"]
            /\ inLength' = TRUE
            /\ UNCHANGED <<prevLen, lastLen, afterLength, cgot, ceof>>
    /\ UNCHANGED <<files, empty, gen, chans, length, errq, sunk, panicked,
                   stale, nCons, ctmp, lastErr>>
    /\ UNCHANGED <<sortVars, fsVars, mrVars, tmpVars>>

\* The caller calls GetError.
CallGetError ==
    /\ ~panicked
    /\ cpc[1] \in {"idle", "stop"}
    /\ lastErr' = GetError(errq).err
    /\ errq' = GetError(errq).q
    /\ lastLen' = NoLen
    /\ prevLen' = NoLen
    /\ UNCHANGED <<files, empty, gen, chans, onceDone, prods, length, sunk,
                   panicked, stale, nCons, cpc, crecv, ctmp, cgot, ceof,
                   inLength, afterLength, usedLength>>
    /\ UNCHANGED <<sortVars, fsVars, mrVars, tmpVars>>


\* -------------------------------------------------------------- Close
\* Paths are 1..MaxPaths; 0 stands for the empty path "".
MaxPaths == 3
MaxPathLen == 3
EmptyPath == 0
PathIds == 1..MaxPaths

\* RetryExecutor{MaxRetries: 5}
MaxRetries == 5

\* The number of consecutive os.Remove calls that fail on a path: none, all
\* but the last attempt, every attempt.
FailureCounts == {0, MaxRetries - 1, MaxRetries}

\* retryexecutor.RetryExecutor.Execute: the handler is run until it
\* succeeds, up to MaxRetries attempts; the error when every attempt failed.
RetryExecute(failures) == IF failures < MaxRetries THEN "nil" ELSE "err"

\* Mutant: no os.Stat check before the removal (os.Remove of a missing file
\* fails).
removeFileNoStat(filePath, d, failures) ==
    IF filePath \in d /\ RetryExecute(failures) = "nil"
    THEN [err |-> "nil", disk |-> d \ {filePath}]
    ELSE [err |-> "err", disk |-> d]

removeFileWithRetry(filePath, d, failures) ==
    IF filePath \notin d THEN [err |-> "nil", disk |-> d]
    ELSE IF RetryExecute(failures) = "nil"
         THEN [err |-> "nil", disk |-> d \ {filePath}]
         ELSE [err |-> "err", disk |-> d]

\* The loop of Close over cr.filesPaths, from index i on.
RECURSIVE CloseLoop(_, _, _, _)
CloseLoop(paths, i, d, failures) ==
    IF i > Len(paths) THEN [err |-> "nil", disk |-> d]
    ELSE IF paths[i] = EmptyPath THEN CloseLoop(paths, i + 1, d, failures)
    ELSE IF removeFileWithRetry(paths[i], d, failures[paths[i]]).err # "nil"
         THEN [err |-> "err",
               disk |-> removeFileWithRetry(paths[i], d, failures[paths[i]]).disk]
         ELSE CloseLoop(paths, i + 1,
                        removeFileWithRetry(paths[i], d, failures[paths[i]]).disk,
                        failures)

\* cr.Close()
Close ==
    /\ \E failures \in [PathIds -> FailureCounts] :
          /\ disk' = CloseLoop(filesPaths, 1, disk, failures).disk
          /\ closeErr' = CloseLoop(filesPaths, 1, disk, failures).err
          /\ filesPaths' = IF CloseLoop(filesPaths, 1, disk, failures).err = "nil"
                           THEN <<>> ELSE filesPaths
    /\ closePaths' = filesPaths
    /\ closeDisk' = disk
    /\ UNCHANGED <<readerVars, sortVars, mrVars, tmpVars>>

\* A reader over a list of paths, each with or without a file on disk.
CloseInit(paths, d) ==
    /\ disk = d
    /\ filesPaths = paths
    /\ closePaths = <<>>
    /\ closeDisk = {}
    /\ closeErr = "none"

\* ------------------------------------------------------------- sort model
\* Keys are strings compared byte-wise; the model's keys are 0..MaxKey, in
\* the order of the strings they stand for, 0 standing for "".
MaxKey == 2
MaxLen == 4
MaxReaders == 2
MaxRunLen == 2
EmptyKey == 0
KeySet == 0..MaxKey

SeqsUpTo(S, n) == UNION { [1..m -> S] : m \in 0..n }

\* Mutant: the two directions swapped.
compareStringsSwapped(src, against, asc) ==
    IF asc THEN src < against ELSE src > against

compareStrings(src, against, asc) ==
    IF asc THEN src > against ELSE src < against

\* getKeyFunc(record): the caller's key function, or for SortContentReader
\* the GetSortKey() of the record converted to the prototype's type.
getKeyFunc(record) == record.k

\* json.Marshal of a SortRecord{Key, Record} with its `omitempty` tags, and
\* json.Unmarshal back into a SortRecord.
MarshalSortRecord(sr) ==
    IF sr.Key = EmptyKey THEN [record |-> sr.Record]
    ELSE [key |-> sr.Key, record |-> sr.Record]

UnmarshalSortRecord(obj) ==
    [Key |-> IF "key" \in DOMAIN obj THEN obj.key ELSE EmptyKey,
     Record |-> obj.record]

\* sort.Strings(allKeys) / sort.Sort(sort.Reverse(sort.StringSlice(allKeys)))
RECURSIVE SortKeys(_, _)
SortKeys(keys, asc) ==
    IF keys = {} THEN <<>>
    ELSE LET first == CHOOSE k \in keys :
                        \A o \in keys : IF asc THEN k <= o ELSE k >= o
         IN  <<first>> \o SortKeys(keys \ {first}, asc)

Range(seq) == { seq[i] : i \in 1..Len(seq) }

\* SortAndSaveBufferToFile: the file written for one buffer.
SortAndSaveBufferToFile(items, keys, asc) ==
    LET sorted == SortKeys(Range(keys), asc)
    IN  [i \in 1..Len(sorted) |-> MarshalSortRecord(items[sorted[i]])]

\* reader.NextRecord on a reader read by one caller.
ReaderNext(file, pos) ==
    IF pos < Len(file) THEN [ok |-> TRUE, rec |-> file[pos + 1]]
    ELSE [ok |-> FALSE, rec |-> <<>>]

\* Nothing fails: getKeyFunc succeeds on every record (key: index of the
\* record it fails on, 0 for none), the input reader has no error, the
\* result writer is created.
NoFail == [key |-> 0, reader |-> FALSE, writer |-> FALSE]

\* A temp file written by a ContentWriter and not handed to the caller.
NewTemp(kind, content) ==
    [kind |-> kind, content |-> content, onDisk |-> TRUE, owners |-> 0]

\* "for _, r := range sortedReaders { err = errors.Join(err, r.Close()) }":
\* the temp files of the readers in cleanup are unlinked.
CloseRuns(ts, cleanup) ==
    [t \in 1..Len(ts) |->
        IF t \in cleanup /\ CloseLoop(<<t>>, 1, {t}, [x \in {t} |-> 0]).err = "nil"
        THEN [ts[t] EXCEPT !.onDisk = FALSE] ELSE ts[t]]

SortIdle ==
    /\ sOp = "none"
    /\ ascendingOrder = TRUE
    /\ bufSize = 1
    /\ input = <<>>
    /\ inPos = 0
    /\ keysToContentItems = <<>>
    /\ allKeys = <<>>
    /\ sortedReaders = <<>>
    /\ rdPos = <<>>
    /\ currentContentItem = <<>>
    /\ sortedFilesClone = <<>>
    /\ resultFile = <<>>
    /\ sPc = "none"
    /\ sFail = NoFail
    /\ sErr = "none"
    /\ runTemps = <<>>

\* SortContentReaderByCalculatedKey(reader, getKeyFunc, asc) is called, or
\* SortContentReader(readerRecord, reader, asc), which calls it with the
\* records' GetSortKey as key function.
SortInit(op, keys, asc, b) ==
    /\ sOp = op
    /\ ascendingOrder = asc
    /\ bufSize = b
    /\ input = [i \in 1..Len(keys) |-> [k |-> keys[i], id |-> i]]
    /\ inPos = 0
    /\ keysToContentItems = <<>>
    /\ allKeys = <<>>
    /\ sortedReaders = <<>>
    /\ rdPos = <<>>
    /\ currentContentItem = <<>>
    /\ sortedFilesClone = <<>>
    /\ resultFile = <<>>
    /\ sPc = "split"
    /\ sErr = "none"
    /\ runTemps = <<>>

\* The map with one more entry.
MapPut(m, k, v) == [x \in DOMAIN m \cup {k} |-> IF x = k THEN v ELSE m[x]]

\* Mutant: the map lookup never finds the key.
KeyExistsNever(m, k) == FALSE

\* Whether a record whose key is in the buffer's map is kept out of it.
KeyExists(m, k) == k \in DOMAIN m

\* One iteration of the loop of
\* splitReaderToSortedBufferSizeReadersByCalculatedKey.
SplitStep ==
    /\ sPc = "split"
    /\ ReaderNext(input, inPos).ok
    /\ inPos' = inPos + 1
    /\ LET newRecord == ReaderNext(input, inPos).rec
           sortKey == getKeyFunc(newRecord)
       IN  IF sFail.key = inPos + 1
           THEN \* getKeyFunc fails: "return nil, err"; the deferred loop of
                \* SortContentReaderByCalculatedKey runs over sortedReaders,
                \* which the failed split has set to nil
                /\ sPc' = "done"
                /\ sErr' = "err"
                /\ temps' = CloseRuns(temps, {})
                /\ UNCHANGED <<keysToContentItems, allKeys, sortedReaders, runTemps>>
           ELSE IF KeyExists(keysToContentItems, sortKey)
           THEN UNCHANGED <<keysToContentItems, allKeys, sortedReaders, runTemps,
                            temps, sPc, sErr>>
           ELSE LET items == MapPut(keysToContentItems, sortKey,
                                    [Key |-> sortKey, Record |-> newRecord])
                    keys == Append(allKeys, sortKey)
                    file == SortAndSaveBufferToFile(items, keys, ascendingOrder)
                IN  IF Len(keys) = bufSize
                    THEN /\ sortedReaders' = Append(sortedReaders, file)
                         /\ temps' = Append(temps, NewTemp("run", file))
                         /\ runTemps' = Append(runTemps, Len(temps) + 1)
                         /\ keysToContentItems' = <<>>
                         /\ allKeys' = <<>>
                         /\ UNCHANGED <<sPc, sErr>>
                    ELSE /\ keysToContentItems' = items
                         /\ allKeys' = keys
                         /\ UNCHANGED <<sortedReaders, runTemps, temps, sPc, sErr>>
    /\ UNCHANGED <<sOp, ascendingOrder, bufSize, input, rdPos,
                   currentContentItem, sortedFilesClone, resultFile, sFail>>
    /\ UNCHANGED <<readerVars, fsVars, mrVars>>

\* The input is exhausted: the last buffer is saved and
\* mergeSortedReadersByCalculatedKey begins (an empty reader is returned
\* when there is no run).
SplitEnd ==
    /\ sPc = "split"
    /\ ~ReaderNext(input, inPos).ok
    /\ IF sFail.reader
       THEN \* reader.GetError() != nil: "return nil, err", sortedReaders nil
            /\ sPc' = "done"
            /\ sErr' = "err"
            /\ temps' = CloseRuns(temps, {})
            /\ UNCHANGED <<sortedReaders, runTemps, rdPos, currentContentItem,
                           sortedFilesClone, keysToContentItems, allKeys>>
       ELSE LET last == Len(allKeys) > 0
                file == SortAndSaveBufferToFile(keysToContentItems, allKeys,
                                                ascendingOrder)
                runs == IF last THEN Append(sortedReaders, file) ELSE sortedReaders
                ts   == IF last THEN Append(temps, NewTemp("run", file)) ELSE temps
                rts  == IF last THEN Append(runTemps, Len(temps) + 1) ELSE runTemps
            IN  /\ sortedReaders' = runs
                /\ runTemps' = rts
                /\ rdPos' = [i \in 1..Len(runs) |-> 0]
                /\ currentContentItem' = [i \in 1..Len(runs) |-> <<>>]
                /\ sortedFilesClone' = [i \in 1..Len(runs) |-> TRUE]
                /\ keysToContentItems' = <<>>
                /\ allKeys' = <<>>
                /\ IF Len(runs) = 0
                   THEN \* NewEmptyContentReader(DefaultKey)
                        /\ sPc' = "done"
                        /\ sErr' = "nil"
                        /\ temps' = CloseRuns(ts, Range(rts))
                   ELSE IF sFail.writer
                   THEN \* NewContentWriter fails: "return nil, err"
                        /\ sPc' = "done"
                        /\ sErr' = "err"
                        /\ temps' = CloseRuns(ts, Range(rts))
                   ELSE /\ sPc' = "merge"
                        /\ temps' = Append(ts, NewTemp("result", <<>>))
                        /\ UNCHANGED sErr
    /\ UNCHANGED <<sOp, ascendingOrder, bufSize, input, inPos, resultFile, sFail>>
    /\ UNCHANGED <<readerVars, fsVars, mrVars>>


\* ------------------------------------------------------------ k-way merges
\* The state of one pass of the inner "for i" loop: the head slots
\* (currentContentItem), the live readers (sortedFilesClone), the readers'
\* positions, candidateToWrite (<<>> for nil) and smallestIndex.
ScanStart == [cur |-> currentContentItem, clone |-> sortedFilesClone,
              pos |-> rdPos, cand |-> <<>>, smallest |-> 1]

\* Mutant: a head whose key equals the candidate's is kept.
KeepEqualHead(head, candidateKey, currentKey) == head

\* "If there are two items with the same key - the second one will be
\* removed": the head slot after the comparison with the candidate's key.
DropEqualHead(head, candidateKey, currentKey) ==
    IF candidateKey = currentKey THEN <<>> ELSE head

\* The inner loop of mergeSortedReadersByCalculatedKey, from index i on.
RECURSIVE ScanByCalculatedKey(_, _)
ScanByCalculatedKey(st, i) ==
    IF i > Len(sortedReaders) THEN st
    ELSE
    LET need == st.cur[i] = <<>> /\ st.clone[i]
        read == ReaderNext(sortedReaders[i], st.pos[i])
        st1  == IF ~need THEN st
                ELSE IF read.ok
                     THEN [st EXCEPT !.cur[i] = <<UnmarshalSortRecord(read.rec)>>,
                                     !.pos[i] = @ + 1]
                     ELSE [st EXCEPT !.clone[i] = FALSE]
    IN  IF need /\ ~read.ok THEN ScanByCalculatedKey(st1, i + 1)   \* continue
        ELSE
        LET both == st1.cand # <<>> /\ st1.cur[i] # <<>>
            candidateKey == IF both THEN st1.cand[1].Key ELSE EmptyKey
            currentKey   == IF both THEN st1.cur[i][1].Key ELSE EmptyKey
            st2 == IF both
                   THEN [st1 EXCEPT !.cur[i] =
                            DropEqualHead(st1.cur[i], candidateKey, currentKey)]
                   ELSE st1
            st3 == IF \/ st2.cand = <<>>
                      \/ (st2.cur[i] # <<>>
                          /\ compareStrings(candidateKey, currentKey, ascendingOrder))
                   THEN [st2 EXCEPT !.cand = st2.cur[i], !.smallest = i]
                   ELSE st2
        IN  ScanByCalculatedKey(st3, i + 1)

\* The inner loop of MergeSortedReaders, from index i on.
RECURSIVE ScanSorted(_, _)
ScanSorted(st, i) ==
    IF i > Len(sortedReaders) THEN st
    ELSE
    LET need == st.cur[i] = <<>> /\ st.clone[i]
        read == ReaderNext(sortedReaders[i], st.pos[i])
        st1  == IF ~need THEN st
                ELSE IF read.ok
                     THEN [st EXCEPT !.cur[i] = <<read.rec>>, !.pos[i] = @ + 1]
                     ELSE [st EXCEPT !.clone[i] = FALSE]
    IN  IF need /\ ~read.ok THEN ScanSorted(st1, i + 1)   \* continue
        ELSE
        LET st3 == IF \/ st1.cand = <<>>
                      \/ (st1.cur[i] # <<>>
                          /\ compareStrings(getKeyFunc(st1.cand[1]),
                                            getKeyFunc(st1.cur[i][1]),
                                            ascendingOrder))
                   THEN [st1 EXCEPT !.cand = st1.cur[i], !.smallest = i]
                   ELSE st1
        IN  ScanSorted(st3, i + 1)

\* What resultWriter.Write receives for the candidate.
WrittenRecord(cand) == IF sOp = "merge" THEN cand ELSE cand.Record

\* One iteration of the outer "for" loop of mergeSortedReadersByCalculatedKey
\* or of MergeSortedReaders: a pass over the readers, then either the
\* candidate is written and its head slot emptied, or the loop ends and the
\* reader over the result file is returned.
MergeStep ==
    /\ sPc = "merge"
    /\ LET st == IF sOp = "merge" THEN ScanSorted(ScanStart, 1)
                 ELSE ScanByCalculatedKey(ScanStart, 1)
       IN  /\ rdPos' = st.pos
           /\ sortedFilesClone' = st.clone
           /\ IF st.cand = <<>>
              THEN /\ sPc' = "done"
                   /\ sErr' = "nil"
                   /\ currentContentItem' = st.cur
                   /\ temps' = IF sOp = "merge" THEN temps
                               ELSE CloseRuns([temps EXCEPT ![Len(temps)] =
                                                 [@ EXCEPT !.content = resultFile,
                                                           !.owners = 1]],
                                             Range(runTemps))
                   /\ UNCHANGED resultFile
              ELSE /\ resultFile' = Append(resultFile, WrittenRecord(st.cand[1]))
                   /\ currentContentItem' = [st.cur EXCEPT ![st.smallest] = <<>>]
                   /\ UNCHANGED <<sPc, sErr, temps>>
    /\ UNCHANGED <<sOp, ascendingOrder, bufSize, input, inPos,
                   keysToContentItems, allKeys, sortedReaders, sFail, runTemps>>
    /\ UNCHANGED <<readerVars, fsVars, mrVars>>

\* MergeSortedReaders(readerRecord, sortedReaders, asc) is called on readers
\* over the given files.
MergeInit(fs, asc) ==
    /\ sOp = "merge"
    /\ ascendingOrder = asc
    /\ bufSize = 1
    /\ input = <<>>
    /\ inPos = 0
    /\ keysToContentItems = <<>>
    /\ allKeys = <<>>
    /\ sortedReaders = [r \in 1..Len(fs) |->
                          [j \in 1..Len(fs[r]) |-> [k |-> fs[r][j], id |-> 10 * r + j]]]
    /\ rdPos = [r \in 1..Len(fs) |-> 0]
    /\ currentContentItem = [r \in 1..Len(fs) |-> <<>>]
    /\ sortedFilesClone = [r \in 1..Len(fs) |-> TRUE]
    /\ resultFile = <<>>
    /\ sPc = IF Len(fs) = 0 THEN "done" ELSE "merge"
    /\ sFail = NoFail
    /\ sErr = IF Len(fs) = 0 THEN "nil" ELSE "none"
    /\ runTemps = <<>>

\* Key sequences ordered (not strictly) in the direction asc.
IsSortedKeys(ks, asc) ==
    \A i \in 1..Len(ks) - 1 : IF asc THEN ks[i] <= ks[i + 1] ELSE ks[i] >= ks[i + 1]

SortedRuns(asc) == { ks \in SeqsUpTo(KeySet, MaxRunLen) : IsSortedKeys(ks, asc) }

\* ------------------------------------------------------- ContentWriter
RECURSIVE Flatten(_)
Flatten(recs) == IF recs = <<>> THEN <<>> ELSE Head(recs) \o Flatten(Tail(recs))

\* The file a ContentWriter leaves once closed: {"<key>":[r1,r2,...]}.
WriterFile(key, recs) == <<LB, Key(key), LS>> \o Flatten(recs) \o <<RS, RB>>

\* cw.Write(record): the record is appended to the array.
WriterWrite(recs, rec) == Append(recs, rec)

\* Mutant: the loop stops after the first record.
WriteFirstOnly(written, items) ==
    IF items = <<>> THEN written ELSE WriterWrite(written, Head(items))

\* The loop that writes every record NextRecord returned.
RECURSIVE WriteAll(_, _)
WriteAll(written, items) ==
    IF items = <<>> THEN written
    ELSE WriteAll(WriterWrite(written, Head(items)), Tail(items))

\* The temp files that are on disk, as indices of temps.
OnDiskTemps == { t \in 1..Len(temps) : temps[t].onDisk }

\* --------------------------------------------------------- MergeReaders
MaxMergeInputs == 2

\* "for item := new(interface{}); cr.NextRecord(item) == nil; ..." run by
\* the only caller of a reader never read before: the records NextRecord
\* returns before its first error (io.EOF, or "Empty" at once on an empty
\* reader), and the errors the producer has added to the queue by then.
RECURSIVE DrainFiles(_, _)
DrainFiles(fs, i) ==
    IF i > Len(fs) THEN [recs |-> <<>>, errs |-> <<>>]
    ELSE [recs |-> FileOutcome[fs[i]].recs \o DrainFiles(fs, i + 1).recs,
          errs |-> (IF FileOutcome[fs[i]].err = "nil" THEN <<>>
                    ELSE <<FileOutcome[fs[i]].err>>) \o DrainFiles(fs, i + 1).errs]

Drain(cr) ==
    IF cr.empty THEN [recs |-> <<>>, errs |-> <<>>] ELSE DrainFiles(cr.files, 1)

\* The loop of MergeReaders over arr, from index i on: the records written,
\* the readers as the loop leaves them, and the error that ends it.
RECURSIVE MergeLoop(_, _, _)
MergeLoop(arr, i, written) ==
    IF i > Len(arr) THEN [err |-> "nil", written |-> written, arr |-> arr]
    ELSE LET d == Drain(arr[i])
             w == WriteAll(written, d.recs)
             e == GetError(arr[i].errq \o d.errs)
             arr1 == [arr EXCEPT ![i].errq = e.q, ![i].drained = ~arr[i].empty]
         IN  IF e.err # "nil"
             THEN [err |-> e.err, written |-> w, arr |-> arr1]
             ELSE MergeLoop(arr1, i + 1, w)

\* NewContentReader(filePath, arrayKey) over a temp file.
ReaderOver(t) == [nil |-> FALSE, empty |-> FALSE, file |-> t]

\* MergeReaders(arr, arrayKey)
MergeReadersCall ==
    /\ mrPc = "call"
    /\ mrPc' = "done"
    /\ \E created \in BOOLEAN :
          IF ~created
          THEN \* NewContentWriter failed
               /\ mrOut' = [reader |-> NoReader, err |-> "create"]
               /\ UNCHANGED <<mrArr, temps>>
          ELSE LET r == MergeLoop(mrArr, 1, <<>>) IN
               /\ mrArr' = r.arr
               /\ temps' = Append(temps,
                               [kind |-> "merge",
                                content |-> WriterFile(arrayKey, r.written),
                                onDisk |-> TRUE,
                                owners |-> IF r.err = "nil" THEN 1 ELSE 0])
               /\ mrOut' = IF r.err = "nil"
                           THEN [reader |-> ReaderOver(Len(temps) + 1), err |-> "nil"]
                           ELSE [reader |-> NoReader, err |-> r.err]
    /\ UNCHANGED mrIn
    /\ UNCHANGED <<readerVars, sortVars, fsVars>>

\* The caller closes the reader MergeReaders returned.
CloseMerged ==
    /\ mrPc = "done"
    /\ ~mrOut.reader.nil
    /\ mrPc' = "closed"
    /\ LET t == mrOut.reader.file
           r == CloseLoop(<<t>>, 1, OnDiskTemps, [p \in {t} |-> 0])
       IN  temps' = [temps EXCEPT ![t].onDisk = (t \in r.disk),
                                  ![t].owners = IF r.err = "nil" THEN 0 ELSE @]
    /\ UNCHANGED <<mrIn, mrArr, mrOut>>
    /\ UNCHANGED <<readerVars, sortVars, fsVars>>

\* The readers MergeReaders is called on: over one or two paths, or empty.
MergeFileLists ==
    { <<DocBasic>>, <<DocEmpty>>, <<DocScalarFirst>>, <<DocScalarFirst, DocBasic>>,
      <<NoFile>>, <<DocScalarFirst, NoFile>>, <<DocBadElem>>, <<DocArrayFirst>> }

MergeInputReaders ==
    { [files |-> fl, empty |-> FALSE, closed |-> FALSE, errq |-> <<>>,
       drained |-> FALSE] : fl \in MergeFileLists }
    \cup { [files |-> <<>>, empty |-> TRUE, closed |-> FALSE, errq |-> <<>>,
            drained |-> FALSE] }

MergeReadersInit(arr) ==
    /\ mrIn = arr
    /\ mrArr = arr
    /\ mrOut = [reader |-> NoReader, err |-> "none"]
    /\ mrPc = "call"

\* --------------------------------------------------------- specifications
ProducerNext ==
    \/ \E g \in Gens : ProdStart(g)
    \/ \E g \in Gens : ProdRead(g)
    \/ \E g \in Gens : ProdSend(g)

ConsumerNext(c) ==
    \/ NextRecordCall(c)
    \/ RecvRecord(c)
    \/ IncLength(c)
    \/ RecvEOF(c)

\* One caller iterating a reader with NextRecord and asking for its error.
Init == (\E fl \in FileLists \cup {<<>>} : ReaderInit(fl, 1)) /\ SortIdle /\ FsIdle /\ MrIdle /\ TmpIdle
Next == ProducerNext \/ ConsumerNext(1) \/ CallGetError
Spec == Init /\ [][Next]_vars

\* One caller using NextRecord and Reset.
ResetFileLists ==
    { <<DocBasic>>, <<DocScalarFirst>>, <<DocEmpty>>,
      <<DocScalarFirst, DocBasic>>, <<NoFile, DocScalarFirst>> }
InitReset == (\E fl \in ResetFileLists : ReaderInit(fl, 1)) /\ SortIdle /\ FsIdle /\ MrIdle /\ TmpIdle
NextReset == ProducerNext \/ ConsumerNext(1) \/ Reset
SpecReset == InitReset /\ [][NextReset]_vars

\* One caller using NextRecord and Length.
LengthFileLists ==
    { <<DocBasic>>, <<DocScalarFirst>>, <<DocEmpty>>, <<DocScalarFirst, NoFile>>,
      <<NoFile>>, <<DocMissing>>, <<>> }
InitLength == (\E fl \in LengthFileLists : ReaderInit(fl, 1)) /\ SortIdle /\ FsIdle /\ MrIdle /\ TmpIdle
NextLength == ProducerNext \/ ConsumerNext(1) \/ Length
SpecLength == InitLength /\ [][NextLength]_vars

\* Several consumers iterating one reader concurrently; the Go scheduler
\* runs every goroutine that can run.
ConcFileLists ==
    { <<DocBasic>>, <<DocScalarFirst>>, <<DocEmpty>>, <<DocScalarFirst, DocBasic>> }
InitConc == (\E fl \in ConcFileLists : ReaderInit(fl, NumConsumers)) /\ SortIdle /\ FsIdle /\ MrIdle /\ TmpIdle
NextConc == ProducerNext \/ \E c \in ConsumerIds : ConsumerNext(c)
SpecConc ==
    /\ InitConc
    /\ [][NextConc]_vars
    /\ WF_vars(ProducerNext)
    /\ \A c \in ConsumerIds : WF_vars(ConsumerNext(c))

\* SortContentReaderByCalculatedKey and SortContentReader on every input of
\* up to MaxLen records, every buffer size up to MaxBufferSize, both ways.
InitSort ==
    /\ ReaderInit(<<>>, 1)
    /\ FsIdle
    /\ MrIdle
    /\ TmpIdle
    /\ \E op \in {"calc", "embedded"}, keys \in SeqsUpTo(KeySet, MaxLen),
          asc \in BOOLEAN, b \in 1..MaxBufferSize :
          SortInit(op, keys, asc, b)
    /\ sFail = NoFail
NextSort == SplitStep \/ SplitEnd \/ MergeStep
SpecSort == InitSort /\ [][NextSort]_vars

\* MergeSortedReaders on up to MaxReaders readers, each sorted the requested
\* way.
InitMerge ==
    /\ ReaderInit(<<>>, 1)
    /\ FsIdle
    /\ MrIdle
    /\ TmpIdle
    /\ \E asc \in BOOLEAN :
          \E fs \in SeqsUpTo(SortedRuns(asc), MaxReaders) : MergeInit(fs, asc)
NextMerge == MergeStep
SpecMerge == InitMerge /\ [][NextMerge]_vars


\* Close called on readers over every list of up to MaxPathLen paths, with
\* every set of files on disk.
InitClose ==
    /\ ReaderInit(<<>>, 1)
    /\ SortIdle
    /\ MrIdle
    /\ TmpIdle
    /\ \E paths \in SeqsUpTo(PathIds \cup {EmptyPath}, MaxPathLen), d \in SUBSET PathIds :
          CloseInit(paths, d)
NextClose == Close
SpecClose == InitClose /\ [][NextClose]_vars

\* MergeReaders called on every list of up to MaxMergeInputs readers, and
\* the reader it returns closed by the caller.
InitMergeReaders ==
    /\ ReaderInit(<<>>, 1)
    /\ SortIdle
    /\ FsIdle
    /\ TmpIdle
    /\ \E arr \in SeqsUpTo(MergeInputReaders, MaxMergeInputs) : MergeReadersInit(arr)
NextMergeReaders == MergeReadersCall \/ CloseMerged
SpecMergeReaders == InitMergeReaders /\ [][NextMergeReaders]_vars

\* SortContentReaderByCalculatedKey on every input, with every failure: of
\* getKeyFunc on one record, of the input reader, of the result writer.
InitSortErr ==
    /\ ReaderInit(<<>>, 1)
    /\ FsIdle
    /\ MrIdle
    /\ TmpIdle
    /\ \E keys \in SeqsUpTo(KeySet, MaxLen), asc \in BOOLEAN, b \in 1..MaxBufferSize :
          /\ SortInit("calc", keys, asc, b)
          /\ sFail \in [key : 0..Len(keys), reader : BOOLEAN, writer : BOOLEAN]
NextSortErr == SplitStep \/ SplitEnd \/ MergeStep
SpecSortErr == InitSortErr /\ [][NextSortErr]_vars

\* ------------------------------------------------------------------ claims
AllPlain == \A i \in 1..Len(files) : PlainContainer(files[i])

\* The records of the files' target arrays, files in the given order.
Expected == ConcatArrays(files, 1)

Count(seq, x) == Cardinality({ i \in 1..Len(seq) : seq[i] = x })

SameMultiset(s, t) ==
    \A x \in Range(s) \cup Range(t) : Count(s, x) = Count(t, x)

RECURSIVE IsSubseq(_, _)
IsSubseq(s, t) ==
    IF s = <<>> THEN TRUE
    ELSE IF t = <<>> THEN FALSE
    ELSE IF Head(s) = Head(t) THEN IsSubseq(Tail(s), Tail(t))
    ELSE IsSubseq(s, Tail(t))

\* What the window's iteration has returned so far is the full sequence from
\* its first record on, and complete once io.EOF was returned.
FullIteration ==
    /\ IsPrefix(cgot[1], Expected)
    /\ ceof[1] > 0 => cgot[1] = Expected

\* C1: over container files (the target array possibly preceded by scalar
\* attributes), a single consumer calling NextRecord repeatedly receives the
\* concatenation of the files' arrays, files in the given order and elements
\* in array order, each record once; once io.EOF was returned no further
\* record is returned.
C1_SingleConsumerOrder == AllPlain => FullIteration

C1_Witness ==
    /\ Len(files) = 2
    /\ AllPlain
    /\ ceof[1] = 2
    /\ Len(cgot[1]) = 5
    /\ cgot[1] = Expected

\* C5 (as claimed): for a file that is valid JSON without the target key,
\* once the producer has exited the error "<arrayKey> not found" is the one
\* error sunk, no record was delivered, and GetError returns that error.
C5_MissingKeyNotFound ==
    (Len(files) = 1 /\ KeyAbsent(files[1]) /\ prods[0].pc = "done") =>
        /\ sunk = <<"not found">>
        /\ cgot[1] = <<>>
        /\ GetError(errq).err = "not found" \/ lastErr = "not found"

\* C6 (as claimed): for a file whose target array is preceded by other
\* top-level attributes, whatever their value, the decoder ends positioned at
\* the first element of the target array and the reader delivers all of the
\* array's records.
C6_ToleratesPrecedingAttributes ==
    ( /\ Len(files) = 1
      /\ HasTargetArray(files[1])
      /\ ArrayOfRecords(files[1])
      /\ ValuesBefore(files[1], 2, arrayKey) # {} ) =>
        /\ prods[0].pc = "done" =>
              findDecoderTargetPosition(files[1], 1, arrayKey) =
                  [err |-> "nil", p |-> FindTopKey(files[1], 2, arrayKey) + 1]
        /\ ceof[1] > 0 => cgot[1] = TargetArray(files[1])

\* C7 (as claimed): two consecutive Length calls return the same result.
C7_LengthIdempotent == prevLen # NoLen => prevLen = lastLen

\* C8 (as claimed): after Length returns, in whatever state it was called,
\* the next NextRecord iteration yields the full record sequence.
C8_LengthRepositions == (afterLength /\ AllPlain) => FullIteration

\* C9 (as claimed): after a Reset made with no NextRecord call in flight,
\* whatever part of the previous iteration was consumed, the NextRecord
\* iteration yields the full record sequence, each record once and in order,
\* then io.EOF.
C9_ResetRestarts == (gen > 0 /\ AllPlain) => (~panicked /\ FullIteration)

RECURSIVE AllGot(_)
AllGot(c) == IF c > nCons THEN <<>> ELSE cgot[c] \o AllGot(c + 1)

C10_Safety ==
    /\ \A c \in 1..nCons : IsSubseq(cgot[c], Expected)
    /\ \A x \in Range(AllGot(1)) : Count(AllGot(1), x) <= Count(Expected, x)
    /\ (\A c \in 1..nCons : ceof[c] > 0) => SameMultiset(AllGot(1), Expected)

C10_AllEOF == \A c \in 1..nCons : ceof[c] > 0

\* C10: with several consumers calling NextRecord concurrently, every record
\* of the source sequence is delivered to exactly one consumer, each
\* consumer receives a subsequence in source order, and every consumer
\* eventually gets io.EOF.
C10_ConcurrentConsumers == []C10_Safety /\ <>C10_AllEOF

C10_Witness ==
    /\ Len(Expected) = 5
    /\ \A c \in 1..nCons : Len(cgot[c]) >= 1 /\ ceof[c] > 0

\* Keys of the records written to the result file.
ResultKeys == [i \in 1..Len(resultFile) |-> getKeyFunc(resultFile[i])]

InputKeys == { getKeyFunc(input[i]) : i \in 1..Len(input) }

\* The first record of the input with key k.
FirstWithKey(k) ==
    input[CHOOSE i \in 1..Len(input) :
            /\ getKeyFunc(input[i]) = k
            /\ \A j \in 1..(i - 1) : getKeyFunc(input[j]) # k]

StrictlyOrdered(ks, asc) ==
    \A i \in 1..Len(ks) - 1 : IF asc THEN ks[i] < ks[i + 1] ELSE ks[i] > ks[i + 1]

\* C2: the output of SortContentReaderByCalculatedKey is strictly ordered in
\* the requested direction, holds exactly one record per distinct key of the
\* input, and that record is the first one with the key in input order.
C2_SortByCalculatedKey ==
    (sPc = "done" /\ sOp = "calc") =>
        /\ StrictlyOrdered(ResultKeys, ascendingOrder)
        /\ Range(ResultKeys) = InputKeys
        /\ \A i \in 1..Len(resultFile) : resultFile[i] = FirstWithKey(ResultKeys[i])

\* Equal keys fell into different runs, and two runs or more were merged.
C2_Witness ==
    /\ sPc = "done"
    /\ sOp = "calc"
    /\ ~ascendingOrder
    /\ Len(resultFile) >= 2
    /\ \E r1, r2 \in 1..Len(sortedReaders) :
          /\ r1 < r2
          /\ \E i \in 1..Len(sortedReaders[r1]), j \in 1..Len(sortedReaders[r2]) :
                UnmarshalSortRecord(sortedReaders[r1][i]).Key =
                    UnmarshalSortRecord(sortedReaders[r2][j]).Key

\* C3 (as claimed): SortContentReader keeps every record, ties included: the
\* output's multiset of records is the input's.
C3_EmbeddedKeepsTies ==
    (sPc = "done" /\ sOp = "embedded") => SameMultiset(resultFile, input)

RECURSIVE ConcatAll(_, _)
ConcatAll(fs, i) == IF i > Len(fs) THEN <<>> ELSE fs[i] \o ConcatAll(fs, i + 1)

\* C4: the output of MergeSortedReaders over sorted readers is sorted (not
\* strictly) in the requested direction and its multiset of records is the
\* union of the inputs' multisets.
C4_MergeSortedReaders ==
    (sPc = "done" /\ sOp = "merge") =>
        /\ IsSortedKeys(ResultKeys, ascendingOrder)
        /\ SameMultiset(resultFile, ConcatAll(sortedReaders, 1))

\* Two readers of two records each, a key repeated inside one reader and
\* shared with the other.
C4_Witness ==
    /\ sPc = "done"
    /\ sOp = "merge"
    /\ Len(sortedReaders) = 2
    /\ Len(resultFile) = 4
    /\ getKeyFunc(sortedReaders[1][1]) = getKeyFunc(sortedReaders[1][2])
    /\ getKeyFunc(sortedReaders[1][1]) = getKeyFunc(sortedReaders[2][1])
    /\ getKeyFunc(sortedReaders[2][1]) # getKeyFunc(sortedReaders[2][2])

\* ---------------------------------------------------- producer and channel
RECURSIVE SumRuns(_)
SumRuns(g) == IF g > gen THEN 0 ELSE prods[g].runs + SumRuns(g + 1)

\* Number of times the producer goroutine was started on the reader.
TotalRuns == SumRuns(0)

ClosedChans == { g \in Gens : chans[g].closed }

PathsOf(paths) == { paths[i] : i \in 1..Len(paths) } \ {EmptyPath}

\* C12: after Close returns success no file of the reader's path list is on
\* disk and GetFilesPaths is empty; Close fails only when a file of the list
\* that exists could not be removed (a missing file or an empty path never
\* makes it fail).
C12_CloseRemovesFiles ==
    /\ closeErr = "nil" => (PathsOf(closePaths) \cap disk = {} /\ filesPaths = <<>>)
    /\ closeErr = "err" => PathsOf(closePaths) \cap closeDisk \cap disk # {}

\* A successful Close over an empty path, a missing file and a file that
\* was on disk.
C12_Witness ==
    /\ closeErr = "nil"
    /\ \E i, j, k \in 1..Len(closePaths) :
          /\ closePaths[i] = EmptyPath
          /\ closePaths[j] # EmptyPath /\ closePaths[j] \notin closeDisk
          /\ closePaths[k] \in closeDisk /\ closePaths[k] \notin disk
    /\ filesPaths = <<>>

\* ----------------------------------------------------------- MergeReaders
RECURSIVE ConcatDrains(_, _)
ConcatDrains(arr, i) ==
    IF i > Len(arr) THEN <<>> ELSE Drain(arr[i]).recs \o ConcatDrains(arr, i + 1)

\* The records a single caller reads from the reader MergeReaders returned.
MergedSeq == readSingleFile(temps[mrOut.reader.file].content).recs

\* C13: MergeReaders over readers that sink no error (the writer having
\* been opened) returns a reader whose record sequence is the concatenation
\* of the input readers' sequences in the given order, and leaves the input
\* readers open, over the same files.
C13_MergeReadersConcat ==
    ( /\ mrPc = "done"
      /\ mrOut.err # "create"
      /\ \A i \in 1..Len(mrIn) : Drain(mrIn[i]).errs = <<>> ) =>
        /\ mrOut.err = "nil"
        /\ ~mrOut.reader.nil
        /\ MergedSeq = ConcatDrains(mrIn, 1)
        /\ \A i \in 1..Len(mrIn) :
              mrArr[i].files = mrIn[i].files /\ ~mrArr[i].closed

\* Two non-empty readers, the first over two files, merged.
C13_Witness ==
    /\ mrPc = "done"
    /\ mrOut.err = "nil"
    /\ Len(mrIn) = 2
    /\ Len(mrIn[1].files) = 2
    /\ Drain(mrIn[2]).recs # <<>>
    /\ Drain(mrIn[1]).recs # Drain(mrIn[2]).recs
    /\ Len(MergedSeq) = 8

\* ------------------------------------------------------------ sort cleanup
RunsUnlinked == \A t \in 1..Len(temps) : temps[t].kind = "run" => ~temps[t].onDisk

\* C14 (as claimed): when SortContentReaderByCalculatedKey has returned,
\* with success or with an error, the temp file of every run created during
\* the call is unlinked; on success the only temp file left is the merged
\* file, owned by the returned reader.
C14_RunsClosedOnReturn ==
    sPc = "done" =>
        /\ RunsUnlinked
        /\ sErr = "nil" =>
              \A t \in OnDiskTemps : temps[t].kind = "result" /\ temps[t].owners = 1

\* ------------------------------------------------------------------ Length
\* C15 (as claimed): on a non-empty reader whose producer sinks no error,
\* Length returns the number of elements of the files' arrays in whatever
\* state it is called.
C15_LengthCountsElements ==
    (lastLen # NoLen /\ ~empty /\ AllPlain) =>
        lastLen = [n |-> Len(Expected), err |-> "nil"]


\* ------------------------------------------------------------------- C16
\* The leading objects of a sequence of JSON values.
RECURSIVE LeadingObjects(_)
LeadingObjects(vals) ==
    IF vals = <<>> \/ Head(vals)[1].k # "{" THEN <<>>
    ELSE <<Head(vals)>> \o LeadingObjects(Tail(vals))

\* The attributes in front of the target key are scalars the positioning
\* walks over.
ScalarsBefore(doc) ==
    \A v \in ValuesBefore(doc, 2, arrayKey) :
        doc[v].k \in {"num", "str"} /\ ~TokenIsString(doc[v], arrayKey)

\* What a file contributes before the producer abandons it: the elements of
\* its target array up to the first one that cannot be decoded; nothing when
\* the file cannot be opened or the array is not reached.
DeliveredOf(doc) ==
    IF HasTargetArray(doc) /\ ScalarsBefore(doc)
    THEN LeadingObjects(TargetArray(doc)) ELSE <<>>

RECURSIVE ConcatDelivered(_, _)
ConcatDelivered(fs, i) ==
    IF i > Len(fs) THEN <<>> ELSE DeliveredOf(fs[i]) \o ConcatDelivered(fs, i + 1)

FileFails(doc) == FileOutcome[doc].err # "nil"

\* One error per failing file, in file order.
RECURSIVE FailureErrors(_, _)
FailureErrors(fs, i) ==
    IF i > Len(fs) THEN <<>>
    ELSE (IF fs[i] = NoFile THEN <<"open">>
          ELSE IF FileFails(fs[i]) THEN <<FileOutcome[fs[i]].err>>
          ELSE <<>>) \o FailureErrors(fs, i + 1)

\* Every file is a plain container or fails, and at least one fails.
SomeFileFails ==
    /\ \E i \in 1..Len(files) : FileFails(files[i])
    /\ \A i \in 1..Len(files) : FileFails(files[i]) \/ PlainContainer(files[i])

\* C16: when opening, positioning or decoding a file fails, the producer
\* appends the error to the errors queue, abandons that file and goes on with
\* the next one: the records delivered before the failure stay delivered,
\* the records of the later files follow in order, the channel is closed
\* when the producer exits, the consumer reaches io.EOF, and while it waits
\* on an empty open channel the producer still has a step to take.
C16_ErrorsSkipFile ==
    SomeFileFails =>
        /\ ~panicked
        /\ IsPrefix(cgot[1], ConcatDelivered(files, 1))
        /\ IsPrefix(sunk, FailureErrors(files, 1))
        /\ prods[0].pc = "done" =>
              chans[0].closed /\ sunk = FailureErrors(files, 1)
        /\ ceof[1] > 0 =>
              /\ cgot[1] = ConcatDelivered(files, 1)
              /\ sunk = FailureErrors(files, 1)
              /\ chans[0].closed
        /\ (cpc[1] = "recv" /\ chans[0].buf = <<>> /\ ~chans[0].closed) =>
              prods[0].pc \in {"spawned", "run", "send"}

\* A file whose second element cannot be decoded, then a good file: the
\* consumer got the first element, then the second file, then io.EOF.
C16_Witness ==
    /\ files = <<DocBadElem, DocScalarFirst>>
    /\ ceof[1] > 0
    /\ Len(cgot[1]) = 3
    /\ cgot[1] = ConcatDelivered(files, 1)
    /\ sunk = <<"decode">>
    /\ chans[0].closed

\* ------------------------------------------------------------------- C17
\* C17 (as claimed): once MergeReaders has returned, every temp file a writer
\* created during the call is owned by exactly one reader the caller can
\* reach, or is no longer on disk, on the error exits too.
C17_TempsOwnedOnReturn ==
    mrPc \in {"done", "closed"} =>
        \A t \in 1..Len(temps) : temps[t].owners = 1 \/ ~temps[t].onDisk

\* ------------------------------------------------------------------- C18
\* The attributes in front of the first target key are numbers or strings.
OnlyScalarsBefore(doc) ==
    \A v \in ValuesBefore(doc, 2, arrayKey) : doc[v].k \in {"num", "str"}

\* C18 (as claimed): on a file whose top-level object binds the target key
\* to an array behind scalar attributes only, the positioning matches the
\* first token that is the target name in key position, not a string value
\* equal to it, consumes the '[' that follows, and leaves the decoder at the
\* first element of that array.
C18_MatchesKeyPositionOnly ==
    \A i \in 1..Len(files) :
        (prods[0].pc # "none" /\ HasTargetArray(files[i])
            /\ OnlyScalarsBefore(files[i])) =>
            findDecoderTargetPosition(files[i], 1, arrayKey) =
                [err |-> "nil", p |-> FindTopKey(files[i], 2, arrayKey) + 1]

\* ------------------------------------------------------------------- C19
\* The producer has returned and its deferred close has run.
ProducerExited == prods[0].pc = "done" /\ chans[0].closed

\* The producer stands at its send on a full channel.
ProducerBlocked ==
    prods[0].pc = "send" /\ Len(chans[0].buf) = MaxBufferSize

\* C19: over finite files and under fair scheduling, with consumers that
\* keep calling NextRecord, the producer eventually exits and closes the
\* channel, a producer blocked on a full channel included, and every
\* NextRecord call that waits on the channel eventually returns, with a
\* record or io.EOF, whether the files hold more records than the channel
\* (N > B) or not.
C19_HandoffLiveness ==
    /\ <>ProducerExited
    /\ ProducerBlocked ~> ProducerExited
    /\ \A c \in ConsumerIds :
          (cpc[c] = "recv") ~> (cpc[c] \in {"idle", "stop"})

\* More records than the channel holds (N = 5, B = 2): the producer has
\* exited, the channel is closed and drained, every consumer's calls have
\* returned and all five records were handed over.
C19_Witness ==
    /\ Len(Expected) > 2 * MaxBufferSize
    /\ ProducerExited
    /\ chans[0].buf = <<>>
    /\ \A c \in 1..nCons : cpc[c] = "stop"
    /\ Len(AllGot(1)) = Len(Expected)

\* ------------------------------------------------------------------- C20
\* The keys of the records of a run, in file order.
RunKeys(run) == [i \in 1..Len(run) |-> UnmarshalSortRecord(run[i]).Key]

\* The buffer holds at most B keys, all different, and the map has exactly
\* these keys; every run holds 1..B records with strictly ordered keys, and
\* every run but the one written after the loop holds exactly B.
Phase1Invariant ==
    /\ Len(allKeys) <= bufSize
    /\ Cardinality(Range(allKeys)) = Len(allKeys)
    /\ DOMAIN keysToContentItems = Range(allKeys)
    /\ \A i \in 1..Len(sortedReaders) :
          /\ Len(sortedReaders[i]) >= 1
          /\ Len(sortedReaders[i]) <= bufSize
          /\ (i < Len(sortedReaders) \/ sPc = "split") =>
                Len(sortedReaders[i]) = bufSize
          /\ StrictlyOrdered(RunKeys(sortedReaders[i]), ascendingOrder)

\* A step of the split loop on a record whose key is in the buffer leaves
\* the buffer, with the earlier record, and the runs as they are.
DuplicateDropped ==
    (/\ sPc = "split"
     /\ ReaderNext(input, inPos).ok
     /\ getKeyFunc(ReaderNext(input, inPos).rec) \in DOMAIN keysToContentItems) =>
        /\ inPos' = inPos + 1
        /\ UNCHANGED <<keysToContentItems, allKeys, sortedReaders>>

\* C20: Phase 1 of the sort never holds more than B keys in its buffer,
\* every run it produces holds at least 1 and at most B records (all runs
\* but the last exactly B), the keys inside one run are pairwise distinct
\* and ordered in the requested direction, and a record whose key is
\* already in the current buffer is dropped while the earlier one is kept.
C20_Phase1Invariants == []Phase1Invariant /\ [][DuplicateDropped]_vars

\* Four records, B = 2, one of them repeating a key of the current buffer:
\* a full run of two and a last run of one were written.
C20_Witness ==
    /\ sPc # "split"
    /\ bufSize = 2
    /\ Len(input) = 4
    /\ Len(sortedReaders) = 2
    /\ Len(sortedReaders[1]) = 2
    /\ Len(sortedReaders[2]) = 1
    /\ getKeyFunc(input[1]) = getKeyFunc(input[2])

\* ------------------------------------------------------------------- C21
\* A producer stands at a send whose channel is closed: the send panics.
SendOnClosed ==
    \E g \in Gens : prods[g].pc = "send" /\ chans[prods[g].sendCh].closed

\* C21 (as claimed): in every sequence of NextRecord and Reset calls of one
\* caller, no producer sends on a closed channel, and a producer started
\* before a Reset pushes no record into the channel that Reset created.
C21_NoCrossIterationSend == ~SendOnClosed /\ ~stale

\* ------------------------------------------------------------------- C22
\* Every consumer has seen io.EOF and made its last call.
DrainOver == \A c \in 1..nCons : cpc[c] = "stop"

\* C22 (as claimed): once several consumers have drained one reader
\* concurrently, the cached length is the number of NextRecord calls that
\* returned a record, which is what a following Length call returns.
C22_LengthCountsDeliveries ==
    DrainOver => length = Len(AllGot(1))

====
